---- MODULE Spec2Model ----
(***************************************************************************)
(* A model of synthesis_engine/api_manufacturer_discovery.py:              *)
(* ApiManufacturerDiscoveryService.discover and the helpers it calls.      *)
(* Python strings are TLA+ strings, handled character by character, so     *)
(* that strip(), lower(), split(), startswith(), sorted() and urlparse()   *)
(* are computed the way the interpreter computes them.                     *)
(***************************************************************************)
EXTENDS Integers, Sequences, FiniteSets, TLC

(***************************************************************************)
(* Python str primitives                                                   *)
(***************************************************************************)

\* The characters of the model, in code point order (the order Python's
\* sorted() and < use on str).
Alphabet == " #-./0123456789:?@ABCDEFGHIJKLMNOPQRSTUVWXYZ[]_abcdefghijklmnopqrstuvwxyz|"

UpperChars == "ABCDEFGHIJKLMNOPQRSTUVWXYZ"

LowerChars == "abcdefghijklmnopqrstuvwxyz"

Ch(s, i) == SubSeq(s, i, i)

CharSet == {Ch(Alphabet, i) : i \in 1..Len(Alphabet)}

\* ord(c)
Ord == [c \in CharSet |-> CHOOSE i \in 1..Len(Alphabet) : Ch(Alphabet, i) = c]

UpperSet == {Ch(UpperChars, i) : i \in 1..Len(UpperChars)}

\* c.lower() of an upper-case letter
LowerOf ==
  [c \in UpperSet |->
     Ch(LowerChars, CHOOSE i \in 1..Len(UpperChars) : Ch(UpperChars, i) = c)]

\* str.lower()
RECURSIVE Lower(_)
Lower(s) ==
  IF s = "" THEN ""
  ELSE IF Len(s) = 1 THEN (IF s \in UpperSet THEN LowerOf[s] ELSE s)
  ELSE Lower(SubSeq(s, 1, Len(s) \div 2)) \o Lower(SubSeq(s, (Len(s) \div 2) + 1, Len(s)))

\* the characters str.strip() removes
IsSpace(c) == c \in {" ", "\n"}

RECURSIVE LStrip(_)
LStrip(s) == IF s # "" /\ IsSpace(Head(s)) THEN LStrip(Tail(s)) ELSE s

RECURSIVE RStrip(_)
RStrip(s) ==
  IF s # "" /\ IsSpace(Ch(s, Len(s))) THEN RStrip(SubSeq(s, 1, Len(s) - 1)) ELSE s

\* str.strip()
Strip(s) == RStrip(LStrip(s))

\* s.startswith(p)
StartsWith(s, p) == Len(s) >= Len(p) /\ SubSeq(s, 1, Len(p)) = p

\* s.endswith(p)
EndsWith(s, p) == Len(s) >= Len(p) /\ SubSeq(s, Len(s) - Len(p) + 1, Len(s)) = p

\* c in s, for one character c
HasChar(s, c) == \E i \in 1..Len(s) : Ch(s, i) = c

\* sub in s
Contains(s, sub) ==
  \E i \in 1..(Len(s) - Len(sub) + 1) : SubSeq(s, i, i + Len(sub) - 1) = sub

\* s.find(c) for one character c, 1-based; 0 when absent
Find(s, c) ==
  IF HasChar(s, c)
  THEN CHOOSE i \in 1..Len(s) : Ch(s, i) = c /\ \A j \in 1..(i - 1) : Ch(s, j) # c
  ELSE 0

\* s.split(sep) for one character sep
RECURSIVE Split(_, _)
Split(s, sep) ==
  LET i == Find(s, sep)
  IN IF i = 0 THEN <<s>>
     ELSE <<SubSeq(s, 1, i - 1)>> \o Split(SubSeq(s, i + 1, Len(s)), sep)

\* a < b on str: lexicographic by code point
RECURSIVE StrLess(_, _)
StrLess(a, b) ==
  IF b = "" THEN FALSE
  ELSE IF a = "" THEN TRUE
  ELSE IF Head(a) = Head(b) THEN StrLess(Tail(a), Tail(b))
  ELSE Ord[Head(a)] < Ord[Head(b)]

(***************************************************************************)
(* Trust policy: _is_valid_source                                          *)
(***************************************************************************)

trusted_domains ==
  { "pharmacompass.com", "pharmaoffer.com", "orangebook.fda.gov", "fda.gov",
    "ema.europa.eu", "cdsco.gov.in", "who.int", "dcat.org",
    "scrip.pharmaintelligence.informa.com" }

\* urllib.parse scheme_chars
SchemeChars ==
  {Ch(LowerChars, i) : i \in 1..Len(LowerChars)} \cup
  {Ch(UpperChars, i) : i \in 1..Len(UpperChars)} \cup
  {"0", "1", "2", "3", "4", "5", "6", "7", "8", "9", "+", "-", "."}

IsAlpha(c) ==
  \/ \E i \in 1..Len(LowerChars) : Ch(LowerChars, i) = c
  \/ \E i \in 1..Len(UpperChars) : Ch(UpperChars, i) = c

\* urllib.parse._splitnetloc(url, 2): the text between "//" and the first of / ? #
NetlocOf(rest) ==
  LET body == SubSeq(rest, 3, Len(rest))
      cuts == {i \in 1..Len(body) : Ch(body, i) \in {"/", "?", "#"}}
      stop == IF cuts = {} THEN Len(body) + 1
              ELSE CHOOSE i \in cuts : \A j \in cuts : i <= j
  IN SubSeq(body, 1, stop - 1)

\* urllib.parse.urlparse(url): the scheme and netloc it returns, or the
\* ValueError ("Invalid IPv6 URL") it raises on an unbalanced bracket.
urlparse(url) ==
  LET i == Find(url, ":")
      hasScheme == /\ i > 1
                   /\ IsAlpha(Head(url))
                   /\ \A j \in 1..(i - 1) : Ch(url, j) \in SchemeChars
      scheme == IF hasScheme THEN Lower(SubSeq(url, 1, i - 1)) ELSE ""
      rest == IF hasScheme THEN SubSeq(url, i + 1, Len(url)) ELSE url
      netloc == IF StartsWith(rest, "//") THEN NetlocOf(rest) ELSE ""
      raises == HasChar(netloc, "[") # HasChar(netloc, "]")
  IN [raises |-> raises, scheme |-> scheme, netloc |-> netloc]

\* domain == trusted or domain.endswith("." + trusted)
DomainMatches(domain, trusted) ==
  domain = trusted \/ EndsWith(domain, "." \o trusted)

\* _is_valid_source(url): the BOOLEAN it returns (value), or the exception
\* urlparse raised in it (raised)
is_valid_source(url) ==
  IF url = "" THEN [raised |-> FALSE, value |-> FALSE]
  ELSE LET parsed == urlparse(Strip(url))
       IN IF parsed.raises THEN [raised |-> TRUE, value |-> FALSE]
          ELSE IF Lower(parsed.scheme) # "https"
               THEN [raised |-> FALSE, value |-> FALSE]
          ELSE [raised |-> FALSE,
                value |-> \E trusted \in trusted_domains :
                            DomainMatches(Lower(parsed.netloc), trusted)]

(***************************************************************************)
(* Response parser: _extract_manufacturers                                 *)
(***************************************************************************)

\* str.splitlines(), for text whose only line break is "\n"
RECURSIVE SplitLines(_)
SplitLines(s) ==
  IF s = "" THEN <<>>
  ELSE LET i == Find(s, "\n")
       IN IF i = 0 THEN <<s>>
          ELSE <<SubSeq(s, 1, i - 1)>> \o SplitLines(SubSeq(s, i + 1, Len(s)))

\* the condition of line 162: the line is taken as a table row
IsCandidateLine(line) ==
  /\ HasChar(line, "|")
  /\ ~StartsWith(Lower(line), "| manufacturers")
  /\ ~StartsWith(line, "|---")

\* [p.strip() for p in line.split("|")]
RawParts(line) == LET ps == Split(line, "|") IN [i \in 1..Len(ps) |-> Strip(ps[i])]

\* "Yes" if v.strip().lower() in ["yes", "t"] else "No"
YesNo(v) == IF Lower(Strip(v)) \in {"yes", "t"} THEN "Yes" ELSE "No"

\* manu_lower in existing_lower (line 171)
InSkipBatch(manu_name, skip_batch) ==
  Lower(manu_name) \in {Lower(skip_batch[i]) : i \in 1..Len(skip_batch)}

\* country.lower() in country_val.lower() (line 182)
CountryMatches(country, country_val) == Contains(Lower(country_val), Lower(country))

\* The body of the loop of lines 161-193 for one line: "skip" (nothing is
\* appended), "row" (rec is appended) or "raise" (an exception leaves the loop).
ParseLine(line, api_name, country, skip_batch) ==
  IF ~IsCandidateLine(line) THEN [kind |-> "skip"]
  ELSE LET raw_parts == RawParts(line)
       IN IF Len(raw_parts) < 8 THEN [kind |-> "skip"]
          ELSE LET parts == SubSeq(raw_parts, 2, Len(raw_parts) - 1)
               IN IF Len(parts) < 6 THEN [kind |-> "skip"]
                  ELSE IF InSkipBatch(parts[1], skip_batch) THEN [kind |-> "skip"]
                  ELSE LET valid == is_valid_source(parts[6])
                       IN IF valid.raised THEN [kind |-> "raise"]
                          ELSE IF ~valid.value THEN [kind |-> "skip"]
                          ELSE IF ~CountryMatches(country, parts[2])
                               THEN [kind |-> "skip"]
                          ELSE [kind |-> "row",
                                rec |-> [api_name |-> api_name,
                                         manufacturer |-> parts[1],
                                         country |-> parts[2],
                                         usdmf |-> YesNo(parts[3]),
                                         cep |-> YesNo(parts[4]),
                                         source_name |-> parts[5],
                                         source_url |-> parts[6]]]

RECURSIVE ParseLines(_, _, _, _)
ParseLines(lines, api_name, country, skip_batch) ==
  IF lines = <<>> THEN [raised |-> FALSE, rows |-> <<>>]
  ELSE LET first == ParseLine(Head(lines), api_name, country, skip_batch)
       IN IF first.kind = "raise" THEN [raised |-> TRUE, rows |-> <<>>]
          ELSE LET rest == ParseLines(Tail(lines), api_name, country, skip_batch)
               IN IF rest.raised THEN rest
                  ELSE IF first.kind = "row"
                       THEN [raised |-> FALSE, rows |-> <<first.rec>> \o rest.rows]
                  ELSE rest

\* _extract_manufacturers(markdown_output, api_name, country, skip_batch): the
\* list it returns (rows), or the exception that leaves it (raised)
extract_manufacturers(markdown_output, api_name, country, skip_batch) ==
  IF markdown_output = "" THEN [raised |-> FALSE, rows |-> <<>>]
  ELSE ParseLines(SplitLines(markdown_output), api_name, country, skip_batch)

(***************************************************************************)
(* The record stores: the REST table and the injected manufacturer_service *)
(***************************************************************************)

\* Bound: the largest number of rows a table holds before the call.
MaxRows == 82

\* skip_list[i : i + 30] (line 69)
BatchSize == 30

SeedLetters == "abcdefghij"

\* The manufacturer of the i-th row a table holds before the call: 100
\* different names in increasing order, some written in upper case or padded
\* with blanks, every 13th row repeating the name before it in another case.
SeedName(i) ==
  LET k == IF i % 13 = 0 THEN i - 1 ELSE i
      hi == ((k - 1) \div 10) + 1
      lo == ((k - 1) % 10) + 1
      first == IF i % 3 = 0 \/ i % 13 = 0 THEN Ch(UpperChars, hi) ELSE Ch(SeedLetters, hi)
      name == first \o Ch(SeedLetters, lo) \o " labs"
  IN IF i % 5 = 0 THEN "  " \o name \o " " ELSE name

\* The i-th row a table holds before the call. Every 23rd row has no
\* manufacturer (null), every 29th an empty one, every 17th a blank one, and
\* every 19th row is a row of another ingredient.
SeedRow(i) ==
  LET base == [api_name |-> IF i % 19 = 0 THEN "Aspirin" ELSE "Metformin HCl",
               country |-> IF i % 4 = 0 THEN "INDIA" ELSE "South India",
               usdmf |-> "Yes", cep |-> "No", source_name |-> "FDA",
               source_url |-> "https://www.fda.gov/dmf",
               source_file |-> "import.csv", imported_at |-> "2024-01-01T00:00:00"]
  IN IF i % 23 = 0 THEN base
     ELSE IF i % 29 = 0 THEN base @@ ("manufacturer" :> "")
     ELSE IF i % 17 = 0 THEN base @@ ("manufacturer" :> "  ")
     ELSE base @@ ("manufacturer" :> SeedName(i))

\* The rows of a table: the n rows it held before the call, then the rows
\* added since.
SeedRows == [i \in 1..MaxRows |-> SeedRow(i)]

RowsOf(table) == SubSeq(SeedRows, 1, table.n) \o table.added

\* rec.get(key): <<>> for None (the key is absent or null), else <<value>>
Get(rec, key) == IF key \in DOMAIN rec THEN <<rec[key]>> ELSE <<>>

\* The filters "api_name": "ilike.*{api_name}*", "country": "ilike.*{country}*"
\* of lines 215-216, as the store applies them.
IlikeMatches(row, api_name, country) ==
  /\ Contains(Lower(row.api_name), Lower(api_name))
  /\ Contains(Lower(row.country), Lower(country))

SelectColumns ==
  {"api_name", "manufacturer", "country", "usdmf", "cep", "source_name", "source_url"}

\* "select": "api_name,manufacturer,...,source_url" (line 214)
Selected(row) == [k \in SelectColumns \cap DOMAIN row |-> row[k]]

\* response.json() of the GET of lines 218-225 when it succeeds
RestQuery(table, api_name, country) ==
  LET hits == SelectSeq(RowsOf(table), LAMBDA row : IlikeMatches(row, api_name, country))
  IN [i \in 1..Len(hits) |-> Selected(hits[i])]

\* manufacturer_service.query(api_name, country): case-insensitive substring
\* match on both fields
LocalQuery(table, api_name, country) ==
  SelectSeq(RowsOf(table), LAMBDA row : IlikeMatches(row, api_name, country))

\* datetime.utcnow().isoformat()
ImportTs == "2026-01-01T00:00:00"

\* The payload of lines 236-251
Payload(records, source_label) ==
  [i \in 1..Len(records) |->
     [api_name |-> records[i].api_name, manufacturer |-> records[i].manufacturer,
      country |-> records[i].country, usdmf |-> records[i].usdmf,
      cep |-> records[i].cep, source_name |-> records[i].source_name,
      source_url |-> records[i].source_url,
      source_file |-> source_label, imported_at |-> ImportTs]]

\* What manufacturer_service.insert_records(records, source_label) stores:
\* the records tagged with the label and an insertion timestamp
LocalStored(records, source_label) == Payload(records, source_label)

(***************************************************************************)
(* Query planner: lines 61-70 of discover                                  *)
(***************************************************************************)

\* (rec.get("manufacturer") or "").strip().lower() for the records with
\* rec.get("manufacturer") (lines 63-65), in the order of the records
SkipNames(existing_records) ==
  LET named == SelectSeq(existing_records,
                         LAMBDA rec : /\ Get(rec, "manufacturer") # <<>>
                                      /\ rec.manufacturer # "")
  IN [i \in 1..Len(named) |-> Lower(Strip(named[i].manufacturer))]

\* The set braces of lines 62-66: each name once
Distinct(names) ==
  LET numbered == [i \in 1..Len(names) |-> <<i, names[i]>>]
      firsts == SelectSeq(numbered,
                          LAMBDA p : \A j \in 1..(p[1] - 1) : names[j] # p[2])
  IN [i \in 1..Len(firsts) |-> firsts[i][2]]

\* sorted(...) of str
Sorted(names) == SortSeq(names, LAMBDA a, b : StrLess(a, b))

\* skip_list (lines 61-67)
SkipList(existing_records) == Sorted(Distinct(SkipNames(existing_records)))

\* range(0, n, 30), as 1-based starts
BatchStarts(n) == {i \in 1..n : (i - 1) % BatchSize = 0}

\* Mutant: the slice ends one element late.
MutBatchAt(skip_list, start) ==
  SubSeq(skip_list, start,
         IF start + BatchSize < Len(skip_list) THEN start + BatchSize
         ELSE Len(skip_list))

\* skip_list[i : i + 30]
BatchAt(skip_list, start) ==
  SubSeq(skip_list, start,
         IF start + BatchSize - 1 < Len(skip_list) THEN start + BatchSize - 1
         ELSE Len(skip_list))

\* batches (lines 68-70)
Batches(skip_list) ==
  LET starts == BatchStarts(Len(skip_list))
  IN IF starts = {} THEN << <<>> >>
     ELSE [k \in 1..Cardinality(starts) |-> BatchAt(skip_list, (k - 1) * BatchSize + 1)]

(***************************************************************************)
(* The service and one call of discover                                    *)
(***************************************************************************)

VARIABLES
  groq_client,     \* self.groq_client is set (GROQ_API_KEY was given)
  supabase,        \* self._use_supabase(): the REST url and key are set
  rest_table,      \* the rows of the REST table
  local_table,     \* the rows manufacturer_service holds
  pc,              \* where the call of discover stands
  d,               \* the locals of discover
  h,               \* what the call has done so far, for the properties
  fn               \* the input and output of a helper applied on its own

vars == <<groq_client, supabase, rest_table, local_table, pc, d, h, fn>>

\* Sizes of the tables before the call: empty, a few rows, two batches of
\* names, three batches of names.
TableSizes == {0, 3, BatchSize + 10, MaxRows}

\* The sizes of the REST table and of manufacturer_service's table: the two
\* hold the same rows or different rows, and a large table goes with a
\* table of a few rows.
TablePairs ==
  {p \in TableSizes \X TableSizes :
     (p[1] <= 3 /\ p[2] <= 3) \/ (p[1] > 3 /\ p[2] = 3) \/ (p[1] = 3 /\ p[2] > 3)}

\* The arguments of a call; <<>> is None.
ApiNameArgs == {<<>>, <<"">>, <<"  ">>, <<"Metformin">>, <<" metformin\n">>}

CountryArgs == {<<>>, <<" ">>, <<"India">>, <<"india ">>}

Header == "| manufacturers | country | usdmf | cep | source_name | source_url |"

Separator == "|---|---|---|---|---|---|"

\* Two trusted rows and one row with an http:// source
TextMetformin ==
  Header \o "\n" \o Separator \o "\n"
  \o "| Acme Labs | India | Yes | No | FDA | https://www.fda.gov/x |\n"
  \o "| Beta Chem | India | No | No | FDA | http://fda.gov/y |\n"
  \o "| Zenith Pharma | West India | T | unknown | WHO | https://who.int/list |"

\* No table at all
TextProse == "I could not find any manufacturer."

\* Rows naming the 1st and the 60th manufacturer of the tables
TextKnown ==
  Header \o "\n"
  \o "| AA Labs | India | Yes | Yes | EMA | https://www.ema.europa.eu/a |\n"
  \o "| FJ LABS | India | Yes | No | CDSCO | https://cdsco.gov.in/f |"

\* A trusted row followed by a row whose source has an unbalanced bracket
TextBracket ==
  "| Acme Labs | India | Yes | No | FDA | https://www.fda.gov/x |\n"
  \o "| Theta | India | Yes | No | FDA | https://[fda.gov/t |"

ModelTexts == {TextMetformin, TextProse, TextKnown, TextBracket, ""}

\* What the chat completion request of lines 141-149 does: it raises, it
\* returns no choice, or it returns a text.
ModelOutcomes ==
  {[kind |-> "raise"], [kind |-> "no_choices"]} \cup
  {[kind |-> "text", text |-> t] : t \in ModelTexts}

NoFrame ==
  [args |-> <<>>, api_name |-> "", country |-> "", phase |-> "",
   existing_records |-> <<>>, skip_list |-> <<>>, batches |-> <<>>,
   batch_idx |-> 0, discovered_records |-> <<>>, insert_result |-> <<>>,
   result |-> <<>>]

NoHistory ==
  [fetches |-> <<>>, model_calls |-> <<>>, yields |-> <<>>, sleeps |-> 0,
   insert_calls |-> <<>>, rest_posts |-> <<>>, local_inserts |-> <<>>]

Init ==
  /\ groq_client \in BOOLEAN
  /\ supabase \in BOOLEAN
  /\ \E sizes \in TablePairs :
       /\ rest_table = [n |-> sizes[1], added |-> <<>>]
       /\ local_table = [n |-> sizes[2], added |-> <<>>]
  /\ pc = "idle"
  /\ d = NoFrame
  /\ h = NoHistory
  /\ fn = <<>>

\* x or ""
OrEmpty(opt) == IF opt = <<>> THEN "" ELSE opt[1]

\* Mutant: the country is not checked.
MutInputMissing(api_name, country) == api_name = ""

\* not api_name or not country (line 54)
InputMissing(api_name, country) == api_name = "" \/ country = ""

\* The first step of _fetch_existing_records and of _insert_records: the REST
\* path when it is configured, else manufacturer_service.
FirstPath(kind) ==
  IF supabase THEN "rest_" \o kind ELSE "local_" \o kind

\* Lines 50-58 and the entry of line 60
Call(a, c) ==
  /\ pc = "idle"
  /\ LET api_name == Strip(OrEmpty(a))
         country == Strip(OrEmpty(c))
     IN IF InputMissing(api_name, country)
        THEN /\ d' = [d EXCEPT !.args = <<a, c>>, !.api_name = api_name,
                               !.country = country,
                               !.result = << [success |-> FALSE,
                                              error |-> "API name and country are required for discovery."] >>]
             /\ pc' = "done"
        ELSE /\ d' = [d EXCEPT !.args = <<a, c>>, !.api_name = api_name,
                               !.country = country, !.phase = "existing"]
             /\ pc' = FirstPath("fetch")
  /\ UNCHANGED <<groq_client, supabase, rest_table, local_table, h, fn>>

\* Mutant: the loop has no break.
MutLoopEnds(discovered_records, batch_idx, batches) == batch_idx = Len(batches)

\* if discovered_records: break, or the batches are used up (lines 73-78)
LoopEnds(discovered_records, batch_idx, batches) ==
  discovered_records # <<>> \/ batch_idx = Len(batches)

\* Mutant: the insert is not guarded.
MutShouldInsert(discovered_records) == TRUE

\* if discovered_records (line 80)
ShouldInsert(discovered_records) == discovered_records # <<>>

\* The provenance label of line 81
SourceLabel == "groq_discovery"

\* Lines 61-72: the frame once existing_records is fetched
Planned(frame, rows) ==
  LET skip_list == SkipList(rows)
  IN [frame EXCEPT !.existing_records = rows, !.skip_list = skip_list,
                   !.batches = Batches(skip_list), !.batch_idx = 1,
                   !.discovered_records = <<>>]

\* Lines 88-96: the frame once the refreshed records are fetched
Returned(frame, rows) ==
  LET inserted == IF frame.insert_result = <<>> THEN [inserted |-> 0, rows |-> <<>>]
                  ELSE frame.insert_result[1]
  IN [frame EXCEPT !.result = << [success |-> TRUE,
                                  existing_records |-> frame.existing_records,
                                  new_records |-> inserted.rows,
                                  all_records |-> rows,
                                  inserted_count |-> inserted.inserted] >>]

\* _fetch_existing_records has returned rows by the path named
Fetched(rows, path) ==
  /\ h' = [h EXCEPT !.fetches = Append(@, [phase |-> d.phase, path |-> path])]
  /\ IF d.phase = "existing"
     THEN d' = Planned(d, rows) /\ pc' = "batch"
     ELSE d' = Returned(d, rows) /\ pc' = "done"

\* The GET of lines 212-225: it returns the matching rows, or it fails (no
\* connection, timeout, a status raise_for_status rejects, a body json()
\* cannot decode) and the except of line 226 passes on to line 228.
RestFetch(ok) ==
  /\ pc = "rest_fetch"
  /\ IF ok
     THEN Fetched(RestQuery(rest_table, d.api_name, d.country), "rest")
     ELSE pc' = "local_fetch" /\ UNCHANGED <<d, h>>
  /\ UNCHANGED <<groq_client, supabase, rest_table, local_table, fn>>

\* Line 228: manufacturer_service.query returns, or raises
LocalFetch(ok) ==
  /\ pc = "local_fetch"
  /\ IF ok
     THEN Fetched(LocalQuery(local_table, d.api_name, d.country), "local")
     ELSE pc' = "raised" /\ UNCHANGED <<d, h>>
  /\ UNCHANGED <<groq_client, supabase, rest_table, local_table, fn>>

\* Mutant: the missing client is not checked for.
MutNoClient == FALSE

\* not self.groq_client (lines 99 and 119)
NoClient == ~groq_client

\* _discover_with_groq for one outcome of the model call (lines 102-115)
DiscoverWithGroq(outcome, api_name, country, skip_batch) ==
  IF outcome.kind \in {"raise", "no_choices"} THEN <<>>
  ELSE IF outcome.text = "" THEN <<>>
  ELSE LET parsed == extract_manufacturers(outcome.text, api_name, country, skip_batch)
       IN IF parsed.raised THEN <<>> ELSE parsed.rows

\* The frame and the next step after one turn of the loop of lines 73-78
\* that found the records given, and lines 80-86 when the loop ends.
AfterBatch(found) ==
  LET discovered == d.discovered_records \o found
  IN IF LoopEnds(discovered, d.batch_idx, d.batches)
     THEN IF ShouldInsert(discovered)
          THEN /\ d' = [d EXCEPT !.discovered_records = discovered]
               /\ pc' = "insert"
          ELSE /\ d' = [d EXCEPT !.discovered_records = discovered, !.phase = "refresh"]
               /\ pc' = FirstPath("fetch")
     ELSE /\ d' = [d EXCEPT !.discovered_records = discovered,
                            !.batch_idx = @ + 1]
          /\ pc' = "batch"

\* One turn of the loop with no model client: line 100
BatchWithoutClient ==
  /\ pc = "batch"
  /\ NoClient
  /\ AfterBatch(<<>>)
  /\ UNCHANGED <<groq_client, supabase, rest_table, local_table, h, fn>>

\* One turn of the loop with a model client: the sleep, the one request, the
\* parse (lines 102-115)
BatchWithClient(outcome) ==
  /\ pc = "batch"
  /\ ~NoClient
  /\ LET found == DiscoverWithGroq(outcome, d.api_name, d.country,
                                   d.batches[d.batch_idx])
     IN /\ AfterBatch(found)
        /\ h' = [h EXCEPT !.sleeps = @ + 1,
                          !.model_calls = Append(@, d.batch_idx),
                          !.yields = Append(@, found # <<>>)]
  /\ UNCHANGED <<groq_client, supabase, rest_table, local_table, fn>>

\* Line 81 and lines 231-234: _insert_records is entered
InsertRecords ==
  /\ pc = "insert"
  /\ h' = [h EXCEPT !.insert_calls =
                      Append(@, [records |-> d.discovered_records,
                                 source_label |-> SourceLabel])]
  /\ IF d.discovered_records = <<>>
     THEN /\ d' = [d EXCEPT !.insert_result = << [inserted |-> 0, rows |-> <<>>] >>,
                            !.phase = "refresh"]
          /\ pc' = FirstPath("fetch")
     ELSE /\ pc' = FirstPath("insert")
          /\ UNCHANGED d
  /\ UNCHANGED <<groq_client, supabase, rest_table, local_table, fn>>

\* _insert_records has returned the result given
Inserted(insert_result) ==
  /\ d' = [d EXCEPT !.insert_result = <<insert_result>>, !.phase = "refresh"]
  /\ pc' = FirstPath("fetch")

\* The POST of lines 252-260. "ok": the table stores the payload and returns
\* its representation. "refused": the request fails before the table stores
\* anything (no connection, a status raise_for_status rejects). "lost": the
\* table stores the payload and the reply is lost (the read times out, or
\* json() cannot decode the body). The except of line 261 passes on to 264.
RestInsert(outcome) ==
  /\ pc = "rest_insert"
  /\ LET payload == Payload(h.insert_calls[Len(h.insert_calls)].records,
                            h.insert_calls[Len(h.insert_calls)].source_label)
     IN /\ rest_table' = IF outcome = "refused" THEN rest_table
                         ELSE [rest_table EXCEPT !.added = @ \o payload]
        /\ h' = [h EXCEPT !.rest_posts = Append(@, [outcome |-> outcome, json |-> payload])]
        /\ IF outcome = "ok"
           THEN Inserted([inserted |-> Len(payload), rows |-> payload])
           ELSE pc' = "local_insert" /\ UNCHANGED d
  /\ UNCHANGED <<groq_client, supabase, local_table, fn>>

\* Line 264: manufacturer_service.insert_records stores the records and
\* returns the count and the stored rows, or raises
LocalInsert(ok) ==
  /\ pc = "local_insert"
  /\ LET call == h.insert_calls[Len(h.insert_calls)]
         stored == LocalStored(call.records, call.source_label)
     IN IF ok
        THEN /\ local_table' = [local_table EXCEPT !.added = @ \o stored]
             /\ h' = [h EXCEPT !.local_inserts = Append(@, stored)]
             /\ Inserted([inserted |-> Len(stored), rows |-> stored])
        ELSE /\ pc' = "raised"
             /\ UNCHANGED <<d, h, local_table>>
  /\ UNCHANGED <<groq_client, supabase, rest_table, fn>>

Next ==
  \/ \E a \in ApiNameArgs, c \in CountryArgs : Call(a, c)
  \/ \E ok \in BOOLEAN : RestFetch(ok)
  \/ \E ok \in BOOLEAN : LocalFetch(ok)
  \/ BatchWithoutClient
  \/ \E outcome \in ModelOutcomes : BatchWithClient(outcome)
  \/ InsertRecords
  \/ \E outcome \in {"ok", "refused", "lost"} : RestInsert(outcome)
  \/ \E ok \in BOOLEAN : LocalInsert(ok)

Spec == Init /\ [][Next]_vars

(***************************************************************************)
(* The helpers applied on their own: fn holds the input, then the output   *)
(***************************************************************************)

\* The service stands by while a helper is applied on its own.
Standby ==
  /\ groq_client = FALSE
  /\ supabase = FALSE
  /\ rest_table = [n |-> 0, added |-> <<>>]
  /\ local_table = [n |-> 0, added |-> <<>>]
  /\ pc = "helper"
  /\ d = NoFrame
  /\ h = NoHistory

StandbyUnchanged == UNCHANGED <<groq_client, supabase, rest_table, local_table, pc, d, h>>

\* --- the planner: lines 61-70 on every list of existing records ---

\* The lists of existing records: what either store returns for a table of
\* every size up to MaxRows and a few queries.
InitPlanner ==
  /\ Standby
  /\ \E n \in 0..MaxRows :
       \E rows \in { LocalQuery([n |-> n, added |-> <<>>], "metformin", "india"),
                     LocalQuery([n |-> n, added |-> <<>>], "i", "INDIA"),
                     RestQuery([n |-> n, added |-> <<>>], "Metformin", "South") } :
          fn = [existing_records |-> rows, out |-> <<>>]

PlanStep ==
  /\ pc = "helper"
  /\ fn.out = <<>>
  /\ fn' = [fn EXCEPT !.out = << [skip_list |-> Planned(NoFrame, fn.existing_records).skip_list,
                                  batches |-> Planned(NoFrame, fn.existing_records).batches] >>]
  /\ StandbyUnchanged

SpecPlanner == InitPlanner /\ [][PlanStep]_vars

\* --- the parser: _extract_manufacturers on texts of a few lines ---

\* Bound: the number of lines of a text given to the parser.
MaxLines == 2

ParserLines ==
  { Header,
    Separator,
    "Here are the manufacturers:",
    "| Acme Labs | India | Yes | No | FDA | https://www.fda.gov/x |",
    "| Zenith Pharma | West India | T | unknown | WHO | https://who.int/list |",
    "| Beta Chem | India | No | No | FDA | http://fda.gov/y |",
    "| Gamma | China | Yes | No | FDA | https://fda.gov/z |",
    "| Delta | India | Yes |",
    "Eps | India | Yes | No | FDA | https://fda.gov/e",
    "| Theta | India | Yes | No | FDA | https://[fda.gov/t |",
    "| ACME labs | Indiana | yes | YES | EMA | https://ema.europa.eu/k | extra |",
    "| Iota | India | Yes | No | X | https://fda.gov.evil.com/ |",
    " | Manufacturers | Country | USDMF | CEP | Source_Name | Source_URL |" }

\* The texts of n lines
RECURSIVE TextsOf(_)
TextsOf(n) ==
  IF n = 0 THEN {""}
  ELSE {line \o "\n" \o rest : line \in ParserLines, rest \in TextsOf(n - 1)}

ParserTexts == UNION {TextsOf(n) : n \in 0..MaxLines}

ParserSkipBatches == {<<>>, <<"acme labs", "zenith">>}

InitParser ==
  /\ Standby
  /\ fn \in {[text |-> t, api_name |-> "Metformin", country |-> c, skip_batch |-> b,
              out |-> <<>>] :
               t \in ParserTexts, c \in {"India", "india"}, b \in ParserSkipBatches}

ParseStep ==
  /\ pc = "helper"
  /\ fn.out = <<>>
  /\ fn' = [fn EXCEPT !.out = <<extract_manufacturers(fn.text, fn.api_name,
                                                      fn.country, fn.skip_batch)>>]
  /\ StandbyUnchanged

SpecParser == InitParser /\ [][ParseStep]_vars

\* --- the trust policy: _is_valid_source on URLs put together from parts ---

UrlSchemes == {"https", "HTTPS", "http", "ftp", ""}

UrlSeparators == {"://", ":"}

UrlUsers == {"", "user@"}

UrlHosts ==
  { "fda.gov", "www.fda.gov", "FDA.gov", "fda.gov.evil.com", "evil.com",
    "notfda.gov", "who.int", "orangebook.fda.gov", "[fda.gov", "" }

UrlPorts == {"", ":443", ":.fda.gov"}

UrlPaths == {"", "/x", "?q"}

UrlPads == {"", " "}

TrustUrls ==
  {""} \cup
  { pad \o scheme \o sep \o user \o host \o port \o path \o pad :
      pad \in UrlPads, scheme \in UrlSchemes, sep \in UrlSeparators,
      user \in UrlUsers, host \in UrlHosts, port \in UrlPorts, path \in UrlPaths }

InitTrust ==
  /\ Standby
  /\ fn \in {[url |-> u, out |-> <<>>] : u \in TrustUrls}

TrustStep ==
  /\ pc = "helper"
  /\ fn.out = <<>>
  /\ fn' = [fn EXCEPT !.out = <<is_valid_source(fn.url)>>]
  /\ StandbyUnchanged

SpecTrust == InitTrust /\ [][TrustStep]_vars

(***************************************************************************)
(* Properties                                                              *)
(***************************************************************************)

\* An argument is missing (None) or has nothing but white space in it.
ArgEmpty(opt) ==
  opt = <<>> \/ \A i \in 1..Len(opt[1]) : Ch(opt[1], i) \in {" ", "\n"}

Called == pc # "idle" /\ pc # "helper"

WellFormedCall == Called /\ ~ArgEmpty(d.args[1]) /\ ~ArgEmpty(d.args[2])

HasReturned == pc = "done"

ReturnedSuccess == pc = "done" /\ d.result[1].success

\* C1: a call whose two arguments are non-empty after trimming returns a
\* result with success = TRUE whatever the collaborators do, no exception
\* leaves discover, and success = FALSE is returned only for an empty argument.
CexC1 ==
  /\ WellFormedCall => pc # "raised"
  /\ (WellFormedCall /\ HasReturned) => d.result[1].success
  /\ (Called /\ HasReturned /\ ~d.result[1].success) =>
       (ArgEmpty(d.args[1]) \/ ArgEmpty(d.args[2]))

\* C2: a call with a missing or blank api_name or country returns
\* success = FALSE with an error message, and does no fetch, no model call,
\* no delay and no insert; the stores are as they were.
ThmC2 ==
  (Called /\ (ArgEmpty(d.args[1]) \/ ArgEmpty(d.args[2]))) =>
    /\ pc = "done"
    /\ d.result[1].success = FALSE
    /\ d.result[1].error # ""
    /\ h.fetches = <<>>
    /\ h.model_calls = <<>>
    /\ h.sleeps = 0
    /\ h.insert_calls = <<>> /\ h.rest_posts = <<>> /\ h.local_inserts = <<>>
    /\ rest_table.added = <<>>
    /\ local_table.added = <<>>

WitC2 ==
  /\ pc = "done"
  /\ d.args = << <<"Metformin">>, <<" ">> >>
  /\ d.result[1].success = FALSE

\* The loop of lines 73-78 is over.
LoopOver == pc \in {"insert", "rest_insert", "local_insert", "done", "raised"}
            \/ (pc \in {"rest_fetch", "local_fetch"} /\ d.phase = "refresh")

\* C3: with a model client, the batches the model is called for are the
\* batches 1, 2, ... in order, one call and one delay each, up to and
\* including the first batch whose parse gives a record (all batches when
\* none does): a batch that gives none is followed by the next batch, and no
\* batch after one that gave a record is tried.
ThmC3 ==
  (groq_client /\ Called) =>
    /\ h.model_calls = [i \in 1..Len(h.model_calls) |-> i]
    /\ Len(h.yields) = Len(h.model_calls)
    /\ h.sleeps = Len(h.model_calls)
    /\ \A i \in 1..(Len(h.yields) - 1) : ~h.yields[i]
    /\ pc = "batch" =>
         /\ d.batch_idx = Len(h.model_calls) + 1
         /\ d.batch_idx <= Len(d.batches)
         /\ \A i \in 1..Len(h.yields) : ~h.yields[i]
    /\ (LoopOver /\ h.fetches # <<>>) =>
         /\ Len(h.model_calls) >= 1
         /\ Len(h.model_calls) <= Len(d.batches)
         /\ h.yields[Len(h.yields)] \/ Len(h.model_calls) = Len(d.batches)
         /\ h.yields[Len(h.yields)] <=> d.discovered_records # <<>>

WitC3 ==
  /\ groq_client
  /\ pc = "done"
  /\ Len(d.batches) = 3
  /\ h.model_calls = <<1, 2>>
  /\ h.yields = <<FALSE, TRUE>>

\* The manufacturer names of the records of the pre-run snapshot, case-folded
\* and trimmed.
KnownNames ==
  { Lower(Strip(d.existing_records[i].manufacturer)) :
      i \in {j \in 1..Len(d.existing_records) :
               "manufacturer" \in DOMAIN d.existing_records[j]} }

\* C4: no record passed to the insert has the manufacturer name (case-folded,
\* trimmed) of a record of the pre-run snapshot existing_records, whatever
\* the number of existing records.
CexC4 ==
  \A c \in 1..Len(h.insert_calls) :
    \A i \in 1..Len(h.insert_calls[c].records) :
      Lower(Strip(h.insert_calls[c].records[i].manufacturer)) \notin KnownNames

\* What C5 says of a call without a model client that has returned, but for
\* the equality of the two snapshots.
NoClientResult ==
  /\ h.model_calls = <<>>
  /\ h.sleeps = 0
  /\ h.insert_calls = <<>> /\ h.rest_posts = <<>> /\ h.local_inserts = <<>>
  /\ d.result[1].success
  /\ d.result[1].inserted_count = 0
  /\ d.result[1].new_records = <<>>

StoredCount(rec) ==
  LET added == rest_table.added \o local_table.added
  IN Cardinality({i \in 1..Len(added) : Selected(added[i]) = rec})

\* C6: when the call has returned, every discovered record that reached the
\* insert is stored exactly once, also when the REST insert fails and
\* manufacturer_service is used.
CexC6 ==
  ReturnedSuccess =>
    \A i \in 1..Len(d.discovered_records) : StoredCount(d.discovered_records[i]) = 1

\* The rows the store reported for the insert: the representation the REST
\* table returned, else what manufacturer_service returned.
ReportedRows ==
  IF h.rest_posts # <<>> /\ h.rest_posts[Len(h.rest_posts)].outcome = "ok"
  THEN h.rest_posts[Len(h.rest_posts)].json
  ELSE h.local_inserts[Len(h.local_inserts)]

\* The records a model response yields for the batch given, as the parser
\* returns them.
ParserRows(text, skip_batch) ==
  extract_manufacturers(text, d.api_name, d.country, skip_batch).rows

\* C7: _insert_records is called iff a record was discovered, once, with the
\* records the parser returned for the first yielding batch and the label
\* "groq_discovery"; inserted_count and new_records are the count and rows
\* the store reported. With no existing record and a response of two trusted
\* rows and one http:// row, inserted_count = 2 and new_records holds the
\* two https rows only.
ThmC7 ==
  /\ Len(h.insert_calls) <= 1
  /\ \A c \in 1..Len(h.insert_calls) :
       /\ h.insert_calls[c].source_label = "groq_discovery"
       /\ h.insert_calls[c].records # <<>>
       /\ h.insert_calls[c].records = d.discovered_records
       /\ h.yields # <<>> /\ h.yields[Len(h.yields)]
       /\ \E t \in ModelTexts :
            h.insert_calls[c].records = ParserRows(t, d.batches[Len(h.model_calls)])
  /\ (LoopOver /\ h.fetches # <<>> /\ pc # "insert") =>
       (h.insert_calls # <<>> <=> d.discovered_records # <<>>)
  /\ ReturnedSuccess =>
       IF h.insert_calls = <<>>
       THEN d.result[1].inserted_count = 0 /\ d.result[1].new_records = <<>>
       ELSE /\ d.result[1].new_records = ReportedRows
            /\ d.result[1].inserted_count = Len(ReportedRows)
  /\ (/\ ReturnedSuccess
      /\ d.existing_records = <<>>
      /\ d.discovered_records = ParserRows(TextMetformin, <<>>)) =>
       /\ d.result[1].inserted_count = 2
       /\ Len(d.result[1].new_records) = 2
       /\ d.result[1].new_records[1].manufacturer = "Acme Labs"
       /\ d.result[1].new_records[2].manufacturer = "Zenith Pharma"
       /\ \A i \in 1..2 : StartsWith(d.result[1].new_records[i].source_url, "https://")

WitC7 ==
  /\ ReturnedSuccess
  /\ d.api_name = "Metformin" /\ d.country = "India"
  /\ d.existing_records = <<>>
  /\ d.discovered_records = ParserRows(TextMetformin, <<>>)
  /\ d.result[1].inserted_count = 2
  /\ h.rest_posts # <<>> /\ h.local_inserts # <<>>

\* The names C8 speaks of: the manufacturer names of the existing records
\* that are not missing and not empty, trimmed and case-folded.
PlannerNames ==
  { Lower(Strip(fn.existing_records[i].manufacturer)) :
      i \in {j \in 1..Len(fn.existing_records) :
               /\ "manufacturer" \in DOMAIN fn.existing_records[j]
               /\ Len(fn.existing_records[j].manufacturer) > 0} }

\* C8: the skip list is the sorted, duplicate-free list of the case-folded,
\* trimmed names of the records with a non-empty manufacturer, and the
\* batches partition it in order: at most 30 names each, exactly 30 in each
\* but the last, ceil(n / 30) batches for n > 0 names (65 names give 30, 30,
\* 5), and the one empty batch for no name.
ThmC8 ==
  fn.out # <<>> =>
    LET skip_list == fn.out[1].skip_list
        batches == fn.out[1].batches
        n == Len(skip_list)
    IN /\ {skip_list[i] : i \in 1..n} = PlannerNames
       /\ \A i \in 1..(n - 1) : StrLess(skip_list[i], skip_list[i + 1])
       /\ \A k \in 1..Len(batches) :
            /\ Len(batches[k]) <= BatchSize
            /\ k < Len(batches) => Len(batches[k]) = BatchSize
            /\ \A j \in 1..Len(batches[k]) :
                 /\ (k - 1) * BatchSize + j <= n
                 /\ batches[k][j] = skip_list[(k - 1) * BatchSize + j]
       /\ n > 0 =>
            /\ Len(batches) = (n + BatchSize - 1) \div BatchSize
            /\ (Len(batches) - 1) * BatchSize + Len(batches[Len(batches)]) = n
       /\ n = 0 => batches = << <<>> >>
       /\ n = 65 => [k \in 1..Len(batches) |-> Len(batches[k])] = <<30, 30, 5>>

WitC8 ==
  /\ fn.out # <<>>
  /\ Len(fn.out[1].skip_list) = 65
  /\ fn.out[1].skip_list[1] = ""
  /\ Len(fn.out[1].batches) = 3
  /\ Len(fn.existing_records) > 65

\* The fields of a table row: the segments between the pipes, trimmed,
\* without the first and the last.
RowFields(line) ==
  LET segments == Split(line, "|")
  IN [i \in 1..(Len(segments) - 2) |-> Strip(segments[i + 1])]

\* The three filters of C9 on a row with six fields or more.
PassesFilters(line) ==
  LET fields == RowFields(line)
  IN /\ Lower(fields[1]) \notin {Lower(fn.skip_batch[i]) : i \in 1..Len(fn.skip_batch)}
     /\ is_valid_source(fields[6]).value
     /\ Contains(Lower(fields[2]), Lower(fn.country))

\* The rows C9 expects of the parser, in the order of the text.
ExpectedRows ==
  SelectSeq(SplitLines(fn.text),
            LAMBDA line : /\ IsCandidateLine(line)
                          /\ Len(Split(line, "|")) >= 8
                          /\ PassesFilters(line))

\* C9: for every text, country and skip batch the parser returns, in the
\* order of the text, exactly the candidate rows that pass the three filters
\* (manufacturer not in the skip batch, source accepted by the trust policy,
\* country contained in the row's country); a malformed row is dropped and
\* nothing is raised.
CexC9 ==
  fn.out # <<>> =>
    /\ ~fn.out[1].raised
    /\ Len(fn.out[1].rows) = Len(ExpectedRows)
    /\ \A i \in 1..Len(ExpectedRows) :
         LET fields == RowFields(ExpectedRows[i])
         IN /\ fn.out[1].rows[i].manufacturer = fields[1]
            /\ fn.out[1].rows[i].country = fields[2]
            /\ fn.out[1].rows[i].source_name = fields[5]
            /\ fn.out[1].rows[i].source_url = fields[6]

\* The host of a URL that starts with https://: the authority without the
\* user-info part and without the port.
ClaimHost(url) ==
  LET authority == NetlocOf(SubSeq(url, Len("https:") + 1, Len(url)))
      ats == {i \in 1..Len(authority) : Ch(authority, i) = "@"}
      hostport == IF ats = {} THEN authority
                  ELSE SubSeq(authority, (CHOOSE i \in ats : \A j \in ats : j <= i) + 1,
                              Len(authority))
      colon == Find(hostport, ":")
  IN Lower(IF colon = 0 THEN hostport ELSE SubSeq(hostport, 1, colon - 1))

\* What C10 says the trust check returns.
ClaimTrusted(url) ==
  LET u == Strip(url)
  IN /\ StartsWith(Lower(u), "https://")
     /\ \E trusted \in trusted_domains :
          ClaimHost(u) = trusted \/ EndsWith(ClaimHost(u), "." \o trusted)

\* C10: for every URL the trust check returns TRUE iff the URL starts with
\* https:// and its host is a trusted domain or a subdomain of one, also for
\* a URL with a port or a user-info part; it raises nothing.
CexC10 ==
  fn.out # <<>> =>
    /\ ~fn.out[1].raised
    /\ fn.out[1].value = ClaimTrusted(fn.url)

====
